---- MODULE Spec2Model ----
(***************************************************************************)
(* Model of UAnimCurveCompressionCodec_ACL (ACL curve codec adapter):      *)
(*   - Compress: per-curve precision, uniform resampling, track build,     *)
(*     external compressor call, copy of the blob, release of the buffer;  *)
(*   - DecompressCurves / DecompressCurve: playback-time decoding.         *)
(***************************************************************************)
EXTENDS Integers, Sequences, FiniteSets, TLC

(***************************************************************************)
(* Bounds of the model.                                                    *)
(***************************************************************************)
\* Width of the significand of the modelled binary floating-point format
\* (C++ float has 24; the rounding behaviour is the same at any width).
MantBits == 4
\* Largest number of curves of an animation handed to Compress.
MaxCurves == 2
\* Largest AnimSeq.NumFrames.
MaxFrames == 4

(***************************************************************************)
(* Single-precision arithmetic: a float is zero or m * 2^e with a          *)
(* normalised MantBits-bit significand m.  Every operation rounds its      *)
(* exact result to nearest, ties to even, as IEEE-754 does.  Only          *)
(* non-negative values occur (precisions, lengths, times, sizes).          *)
(***************************************************************************)
Pow2(n) == 2 ^ n

Zero == [m |-> 0, e |-> 0]

\* What a division by zero yields (+infinity).
Inf == [m |-> 0, e |-> 1]

\* The number of binary digits of M > 0.
RECURSIVE BitLen(_)
BitLen(M) == IF M < 2 THEN 1 ELSE 1 + BitLen(M \div 2)

\* M * 2^E (M > 0; sticky: the exact value is a little above M * 2^E),
\* rounded to the format.
RoundNearestEven(M, E, sticky) ==
    LET len == BitLen(M)
    IN  IF len <= MantBits
        THEN [m |-> M * Pow2(MantBits - len), e |-> E - (MantBits - len)]
        ELSE LET drop == len - MantBits
                 q    == M \div Pow2(drop)
                 r    == M % Pow2(drop)
                 half == Pow2(drop - 1)
                 up   == r > half \/ (r = half /\ (sticky \/ q % 2 = 1))
                 q1   == IF up THEN q + 1 ELSE q
             IN  IF q1 = Pow2(MantBits)
                 THEN [m |-> Pow2(MantBits - 1), e |-> E + drop + 1]
                 ELSE [m |-> q1, e |-> E + drop]

\* float(n) for an int n >= 0.
FromInt(n) == IF n = 0 THEN Zero ELSE RoundNearestEven(n, 0, FALSE)

\* a / b
FDiv(a, b) ==
    IF b = Zero THEN Inf
    ELSE IF a = Zero THEN Zero
    ELSE IF a = Inf THEN Inf
    ELSE IF b = Inf THEN Zero
    ELSE LET n == a.m * Pow2(MantBits + 2)
         IN  RoundNearestEven(n \div b.m, a.e - b.e - (MantBits + 2), n % b.m # 0)

\* a * b
FMul(a, b) ==
    IF a = Zero \/ b = Zero THEN Zero
    ELSE IF a = Inf \/ b = Inf THEN Inf
    ELSE RoundNearestEven(a.m * b.m, a.e + b.e, FALSE)

\* a < b
FLess(a, b) ==
    IF a = Inf THEN FALSE
    ELSE IF b = Inf THEN TRUE
    ELSE IF b = Zero THEN FALSE
    ELSE IF a = Zero THEN TRUE
    ELSE a.e < b.e \/ (a.e = b.e /\ a.m < b.m)

FLessEq(a, b) == a = b \/ FLess(a, b)

\* FMath::Max
FMax(a, b) == IF FLess(b, a) THEN a ELSE b

\* FMath::Clamp(X, Min, Max) == X < Min ? Min : X < Max ? X : Max
Clamp(X, Min, Max) == IF FLess(X, Min) THEN Min ELSE IF FLess(X, Max) THEN X ELSE Max

\* The literals 0.0001f and 30.0f of Compress.
StaticPoseLength == FDiv(FromInt(1), FromInt(10000))
StaticPoseSampleRate == FromInt(30)


(***************************************************************************)
(* Compression-time inputs.                                                *)
(***************************************************************************)
\* AnimSeq.RawCurveData.FloatCurves is drawn from these curves.  A curve is
\* its smart name and a piecewise function of time: lo before the key, hi
\* from the key on (FFloatCurve::FloatCurve.Eval is the engine's).  The
\* engine keeps the UIDs of the curves of one animation distinct.
RawCurves ==
    { [Name |-> [UID |-> 1, DisplayName |-> "smile"],
       FloatCurve |-> [key |-> FromInt(1), lo |-> 0, hi |-> 1]],
      [Name |-> [UID |-> 2, DisplayName |-> "blink"],
       FloatCurve |-> [key |-> FDiv(FromInt(1), FromInt(3)), lo |-> 2, hi |-> 3]],
      [Name |-> [UID |-> 3, DisplayName |-> "frown"],
       FloatCurve |-> [key |-> FDiv(FromInt(1), FromInt(4)), lo |-> 4, hi |-> 5]],
      [Name |-> [UID |-> 4, DisplayName |-> "roll"],
       FloatCurve |-> [key |-> Zero, lo |-> 6, hi |-> 7]],
      [Name |-> [UID |-> 5, DisplayName |-> "jaw"],
       FloatCurve |-> [key |-> FromInt(2), lo |-> 8, hi |-> 9]] }

Eval(FloatCurve, Time) == IF FLess(Time, FloatCurve.key) THEN FloatCurve.lo ELSE FloatCurve.hi

\* MorphTargetSource is nullptr or the skeletal mesh.  The mesh has, per
\* display name, a morph target (Deltas: the sizes of its position deltas at
\* LOD 0) or none.  "frown" is a target without vertex deltas.
MorphTargetSources == {"nullptr", "mesh"}

NoTarget == [null |-> TRUE, Deltas |-> <<>>]

MorphTarget(Deltas) == [null |-> FALSE, Deltas |-> Deltas]

FindMorphTarget(MorphTargetSource, DisplayName) ==
    CASE DisplayName = "smile" -> MorphTarget(<<FromInt(14)>>)
      [] DisplayName = "blink" -> MorphTarget(<<FromInt(2), FromInt(15), FromInt(3)>>)
      [] DisplayName = "frown" -> MorphTarget(<<>>)
      [] DisplayName = "jaw" -> MorphTarget(<<FromInt(1), FromInt(3)>>)
      [] OTHER -> NoTarget

\* The values the editor can give the precision properties (the
\* constructor's defaults are 0.001 and 0.01).
CurvePrecisions == {FDiv(FromInt(1), FromInt(1000)), FromInt(2)}
MorphTargetPositionPrecisions == {Zero, FDiv(FromInt(1), FromInt(100))}

SequenceLengths ==
    {Zero, FDiv(FromInt(1), FromInt(20000)), FDiv(FromInt(1), FromInt(3)), FromInt(1)}

\* The sequences of at most n pairwise distinct elements of S.
RECURSIVE DistinctSeqs(_, _)
DistinctSeqs(S, n) ==
    IF n = 0 THEN {<<>>}
    ELSE LET shorter == DistinctSeqs(S, n - 1)
         IN  shorter \cup
             {Append(q, x) : <<q, x>> \in
                 {qx \in shorter \X S :
                     /\ Len(qx[1]) = n - 1
                     /\ \A i \in 1..Len(qx[1]) : qx[1][i] # qx[2]}}

(***************************************************************************)
(* Compress: the pure part (lines 75-176).                                 *)
(***************************************************************************)
\* The loop of lines 99-103: the largest delta size, starting from 0.0f.
RECURSIVE LargestDelta(_, _)
LargestDelta(Deltas, MaxDeltaPosition) ==
    IF Deltas = <<>> THEN MaxDeltaPosition
    ELSE LargestDelta(Tail(Deltas), FMax(MaxDeltaPosition, Head(Deltas)))

GetMorphTargetMaxPositionDeltas(FloatCurves, MorphTargetSource) ==
    [CurveIndex \in 1..Len(FloatCurves) |->
        IF MorphTargetSource = "nullptr" THEN Zero
        ELSE LET Target == FindMorphTarget(MorphTargetSource,
                                           FloatCurves[CurveIndex].Name.DisplayName)
             IN  IF Target.null THEN Zero ELSE LargestDelta(Target.Deltas, Zero)]

\* line 159
PrecisionDividesByZero_Mutant(MaxPositionDelta, Codec) ==
    IF FLessEq(Zero, MaxPositionDelta)
    THEN FDiv(Codec.MorphTargetPositionPrecision, MaxPositionDelta)
    ELSE Codec.CurvePrecision

Precision(MaxPositionDelta, Codec) ==
    IF FLess(Zero, MaxPositionDelta)
    THEN FDiv(Codec.MorphTargetPositionPrecision, MaxPositionDelta)
    ELSE Codec.CurvePrecision

\* lines 120-122
IsStaticPose(NumSamples, SequenceLength) ==
    NumSamples <= 1 \/ FLess(SequenceLength, StaticPoseLength)

SampleRate(NumSamples, SequenceLength) ==
    IF IsStaticPose(NumSamples, SequenceLength)
    THEN StaticPoseSampleRate
    ELSE FDiv(FromInt(NumSamples - 1), SequenceLength)

InvSampleRate(NumSamples, SequenceLength) ==
    FDiv(FromInt(1), SampleRate(NumSamples, SequenceLength))

\* line 169 (SampleIndex counts from 0)
SampleTimeUnclamped_Mutant(SampleIndex, NumSamples, SequenceLength) ==
    FMul(FromInt(SampleIndex), InvSampleRate(NumSamples, SequenceLength))

SampleTime(SampleIndex, NumSamples, SequenceLength) ==
    Clamp(FMul(FromInt(SampleIndex), InvSampleRate(NumSamples, SequenceLength)),
          Zero, SequenceLength)

\* The times at which lines 167-173 evaluate a curve, in loop order.
SampleTimes(NumSamples, SequenceLength) ==
    [s \in 1..NumSamples |-> SampleTime(s - 1, NumSamples, SequenceLength)]

\* lines 127-176: one track per curve (CurveIndex counts from 0 in the code,
\* sequences from 1 here; output_index keeps the code's 0-based value).
BuildTracksReversed_Mutant(Anim, Codec) ==
    LET Deltas == GetMorphTargetMaxPositionDeltas(Anim.FloatCurves, Codec.MorphTargetSource)
        N      == Len(Anim.FloatCurves)
    IN  [i \in 1..N |->
            [desc |-> [output_index |-> N - i,
                       precision |-> Precision(Deltas[i], Codec),
                       constant_threshold |-> Precision(Deltas[i], Codec)],
             num_samples |-> Anim.NumFrames,
             sample_rate |-> SampleRate(Anim.NumFrames, Anim.SequenceLength),
             samples |-> [s \in 1..Anim.NumFrames |->
                             Eval(Anim.FloatCurves[i].FloatCurve,
                                  SampleTime(s - 1, Anim.NumFrames, Anim.SequenceLength))]]]

BuildTracks(Anim, Codec) ==
    LET Deltas == GetMorphTargetMaxPositionDeltas(Anim.FloatCurves, Codec.MorphTargetSource)
    IN  [i \in 1..Len(Anim.FloatCurves) |->
            [desc |-> [output_index |-> i - 1,
                       precision |-> Precision(Deltas[i], Codec),
                       constant_threshold |-> Precision(Deltas[i], Codec)],
             num_samples |-> Anim.NumFrames,
             sample_rate |-> SampleRate(Anim.NumFrames, Anim.SequenceLength),
             samples |-> [s \in 1..Anim.NumFrames |->
                             Eval(Anim.FloatCurves[i].FloatCurve,
                                  SampleTime(s - 1, Anim.NumFrames, Anim.SequenceLength))]]]

\* acl::compress_track_list on success: the compressed tracks, track k of
\* the blob being the input track whose output_index is k (0-based).  The
\* blob keeps each track's samples and error tolerance.
CompressedTracksOf(TrackList) ==
    [valid |-> TRUE,
     tracks |-> [k \in 1..Len(TrackList) |->
                    LET i == CHOOSE j \in 1..Len(TrackList) :
                                 TrackList[j].desc.output_index = k - 1
                    IN  [samples |-> TrackList[i].samples,
                         precision |-> TrackList[i].desc.precision]]]


(***************************************************************************)
(* State.                                                                  *)
(***************************************************************************)
VARIABLES
    \* -- compression (editor) side --
    Codec,             \* the codec object's properties
    AnimSeq,           \* the FCompressibleAnimData argument of Compress
    NoLogging,         \* the build's NO_LOGGING
    cpc,               \* where Compress is
    Tracks,            \* acl::track_array_float1f Tracks
    EvalTimes,         \* per curve, the times handed to FloatCurve.Eval, in order
    CompressionResult, \* acl::ErrorResult: "" when empty
    CompressedTracks,  \* the pointer the compressor sets: "nullptr" or "buffer"
    Heap,              \* the buffer the compressor allocates from AllocatorImpl
    AllocLog,          \* what happened to that buffer, in order
    CompressorCalls,   \* calls of acl::compress_track_list made by this Compress
    OutResult,         \* the caller's FAnimCurveCompressionResult
    OutResultBefore,   \* OutResult when Compress was entered
    ReturnValue,       \* what Compress returned
    \* -- playback side --
    Playback,          \* the FCompressedAnimSequence the calls decode
    dpc,               \* per caller, where its decompression call is
    Args,              \* per caller, the entry point and its arguments
    Context,           \* per caller, its acl::decompression_context
    Local,             \* per caller, TrackIndex, the writer's state
    Result,            \* per caller, the value DecompressCurve returned
    Curves,            \* per caller, its FBlendedCurve
    CurvesBefore,      \* per caller, Curves when the call was entered
    Steps              \* per caller, the codec operations done so far

cvars == <<Codec, AnimSeq, NoLogging, cpc, Tracks, EvalTimes, CompressionResult,
           CompressedTracks, Heap, AllocLog, CompressorCalls, OutResult,
           OutResultBefore, ReturnValue>>
dvars == <<Playback, dpc, Args, Context, Local, Result, Curves, CurvesBefore, Steps>>
vars == <<cvars, dvars>>

(***************************************************************************)
(* Compress, lines 112-211.                                                *)
(***************************************************************************)
NumCurvesOf(Anim) == Len(Anim.FloatCurves)

\* No bytes: nothing that could be read as compressed tracks.
NoBytes == [valid |-> FALSE, tracks |-> <<>>]

EmptyResult == [CompressedBytes |-> NoBytes, Codec |-> "nullptr"]

\* A result object that still holds the outcome of an earlier compression.
EarlierResult ==
    [CompressedBytes |-> [valid |-> TRUE,
                          tracks |-> <<[samples |-> <<8>>, precision |-> Zero]>>],
     Codec |-> "earlier codec"]

Unallocated == [state |-> "unallocated", bytes |-> NoBytes]

\* lines 114-176
CompressBuildTracks ==
    /\ cpc = "entered"
    /\ Tracks' = BuildTracks(AnimSeq, Codec)
    /\ EvalTimes' = [i \in 1..NumCurvesOf(AnimSeq) |->
                        SampleTimes(AnimSeq.NumFrames, AnimSeq.SequenceLength)]
    /\ cpc' = "tracks built"
    /\ UNCHANGED <<Codec, AnimSeq, NoLogging, CompressionResult, CompressedTracks,
                   Heap, AllocLog, CompressorCalls, OutResult, OutResultBefore,
                   ReturnValue>>
    /\ UNCHANGED dvars

\* lines 178-182.  The compressor either rejects the track list, before it
\* allocates anything, or allocates the compressed tracks from the
\* allocator it is given and hands them out.
CompressTrackList ==
    /\ cpc = "tracks built"
    /\ CompressorCalls' = CompressorCalls + 1
    /\ \E rejected \in BOOLEAN :
          IF rejected
          THEN /\ CompressionResult' = "error"
               /\ UNCHANGED <<CompressedTracks, Heap, AllocLog>>
          ELSE /\ CompressionResult' = ""
               /\ CompressedTracks' = "buffer"
               /\ Heap' = [state |-> "live", bytes |-> CompressedTracksOf(Tracks)]
               /\ AllocLog' = Append(AllocLog, "allocate")
    /\ cpc' = "compressed"
    /\ UNCHANGED <<Codec, AnimSeq, NoLogging, Tracks, EvalTimes, OutResult,
                   OutResultBefore, ReturnValue>>
    /\ UNCHANGED dvars

\* lines 184-188
CompressFailedClearsResult_Mutant ==
    /\ cpc = "compressed"
    /\ CompressionResult # ""
    /\ OutResult' = EmptyResult
    /\ ReturnValue' = "false"
    /\ cpc' = "returned"
    /\ UNCHANGED <<Codec, AnimSeq, NoLogging, Tracks, EvalTimes, CompressionResult,
                   CompressedTracks, Heap, AllocLog, CompressorCalls,
                   OutResultBefore>>
    /\ UNCHANGED dvars

CompressFailed ==
    /\ cpc = "compressed"
    /\ CompressionResult # ""
    /\ ReturnValue' = "false"
    /\ cpc' = "returned"
    /\ UNCHANGED <<Codec, AnimSeq, NoLogging, Tracks, EvalTimes, CompressionResult,
                   CompressedTracks, Heap, AllocLog, CompressorCalls, OutResult,
                   OutResultBefore>>
    /\ UNCHANGED dvars

\* What a read through CompressedTracks yields.
ReadBuffer == IF Heap.state = "live" THEN Heap.bytes ELSE NoBytes

\* lines 192-198: get_size, Memcpy into CompressedBytes, Codec = this
CompressCopy ==
    /\ cpc = "compressed"
    /\ CompressionResult = ""
    /\ OutResult' = [CompressedBytes |-> ReadBuffer, Codec |-> "this"]
    /\ AllocLog' = AllocLog \o <<"get_size", "Memcpy">>
    /\ cpc' = IF NoLogging THEN "logged" ELSE "copied"
    /\ UNCHANGED <<Codec, AnimSeq, NoLogging, Tracks, EvalTimes, CompressionResult,
                   CompressedTracks, Heap, CompressorCalls, OutResultBefore,
                   ReturnValue>>
    /\ UNCHANGED dvars

\* lines 200-207: calculate_compression_error reads the compressed tracks
CompressLogError ==
    /\ cpc = "copied"
    /\ AllocLog' = Append(AllocLog, "calculate_compression_error")
    /\ cpc' = "logged"
    /\ UNCHANGED <<Codec, AnimSeq, NoLogging, Tracks, EvalTimes, CompressionResult,
                   CompressedTracks, Heap, CompressorCalls, OutResult,
                   OutResultBefore, ReturnValue>>
    /\ UNCHANGED dvars

\* lines 209-210 and ACLAllocator::deallocate (ACLImpl.h 49-52)
CompressReturnsWithoutFree_Mutant ==
    /\ cpc = "logged"
    /\ ReturnValue' = "true"
    /\ cpc' = "returned"
    /\ UNCHANGED <<Codec, AnimSeq, NoLogging, Tracks, EvalTimes, CompressionResult,
                   CompressedTracks, Heap, AllocLog, CompressorCalls, OutResult,
                   OutResultBefore>>
    /\ UNCHANGED dvars

CompressDeallocate ==
    /\ cpc = "logged"
    /\ Heap' = [Heap EXCEPT !.state = "freed"]
    /\ AllocLog' = Append(AllocLog, "deallocate")
    /\ ReturnValue' = "true"
    /\ cpc' = "returned"
    /\ UNCHANGED <<Codec, AnimSeq, NoLogging, Tracks, EvalTimes, CompressionResult,
                   CompressedTracks, CompressorCalls, OutResult, OutResultBefore>>
    /\ UNCHANGED dvars


(***************************************************************************)
(* Playback-time inputs.                                                   *)
(***************************************************************************)
\* Largest number of tracks of a compressed animation that is played back.
MaxTracks == 2

\* SmartName::UID_Type values
UIDs == {1, 2}

\* The threads that evaluate animations.
Callers == {"game", "worker"}

\* Query times, counted in sample periods of the compressed tracks.
CurrentTimes == {0, 1}

\* What a compressed track can hold (value 0 included).
PlaybackTracks ==
    { [samples |-> <<1, 2>>, precision |-> Zero],
      [samples |-> <<3, 0>>, precision |-> Zero] }

\* Bytes that are no compressed tracks.
Malformed == NoBytes

\* CompressedCurveNames is parallel to the tracks of the blob it is stored
\* with; nothing keeps a UID from occurring twice in it.
PlaybackAssets ==
    UNION { { [CompressedCurveNames |-> names, CompressedCurveByteStream |-> bytes] :
                bytes \in {Malformed} \cup
                          {[valid |-> TRUE, tracks |-> t] :
                              t \in [1..Len(names) -> PlaybackTracks]} } :
            names \in UNION {[1..n -> UIDs] : n \in 0..MaxTracks} }

\* The FBlendedCurve a caller passes: an element per UID of Ids, each
\* holding the value 8; the UIDs of Enabled are enabled.
BlendedCurveOver(Ids, Enabled) ==
    [uid \in Ids |-> [enabled |-> uid \in Enabled, value |-> 8]]

BlendedCurve(Enabled) == BlendedCurveOver(UIDs, Enabled)

EnabledSets == {{}, {1}, UIDs}

(***************************************************************************)
(* DecompressCurves and DecompressCurve: the codec's operations.           *)
(***************************************************************************)
\* CompressedTracks->is_valid(false).empty()
IsValid(bytes) == bytes.valid

\* Context.initialize(*CompressedTracks); Context.seek(CurrentTime, None):
\* the context refers to the tracks and holds the position sought.
SeekOf(bytes, CurrentTime) ==
    LET num_samples == Len(bytes.tracks[1].samples)
    IN  [tracks |-> bytes.tracks,
         key |-> IF CurrentTime + 1 > num_samples THEN num_samples ELSE CurrentTime + 1]

\* lines 253-255 and 289-291: Context is a local of the call of caller c.
SeekSharedContext_Mutant(contexts, c, bytes, CurrentTime) ==
    [d \in Callers |-> SeekOf(bytes, CurrentTime)]

SeekContext(contexts, c, bytes, CurrentTime) ==
    [contexts EXCEPT ![c] = SeekOf(bytes, CurrentTime)]

\* The value the context decodes for a track (TrackIndex counts from 0).
TrackValueOfFirstTrack_Mutant(context, TrackIndex) ==
    context.tracks[1].samples[context.key]

TrackValue(context, TrackIndex) ==
    context.tracks[TrackIndex + 1].samples[context.key]

\* UE4CurveWriter::write_float1, lines 230-237
WriteFloat1Unchecked_Mutant(Buffer, CompressedCurveNames, TrackIndex, Value) ==
    LET uid == CompressedCurveNames[TrackIndex + 1]
    IN  [Buffer EXCEPT ![uid] = [enabled |-> TRUE, value |-> Value]]

WriteFloat1(Buffer, CompressedCurveNames, TrackIndex, Value) ==
    LET uid == CompressedCurveNames[TrackIndex + 1]
    IN  IF Buffer[uid].enabled
        THEN [Buffer EXCEPT ![uid].value = Value]
        ELSE Buffer

\* lines 293-301: the first index whose UID is CurveUID, or -1
FindTrackIndexNoSentinel_Mutant(CompressedCurveNames, CurveUID) ==
    LET found == {i \in 1..Len(CompressedCurveNames) : CompressedCurveNames[i] = CurveUID}
    IN  IF found = {} THEN 0
        ELSE (CHOOSE i \in found : \A j \in found : i <= j) - 1

FindTrackIndex(CompressedCurveNames, CurveUID) ==
    LET found == {i \in 1..Len(CompressedCurveNames) : CompressedCurveNames[i] = CurveUID}
    IN  IF found = {} THEN -1
        ELSE (CHOOSE i \in found : \A j \in found : i <= j) - 1

(***************************************************************************)
(* The two entry points run by one caller from entry to return.            *)
(***************************************************************************)
\* Context.decompress_tracks(TrackWriter), tracks from..last in index order
RECURSIVE DecompressTracks(_, _, _, _)
DecompressTracks(context, CompressedCurveNames, Buffer, from) ==
    IF from >= Len(context.tracks) THEN Buffer
    ELSE DecompressTracks(context, CompressedCurveNames,
                          WriteFloat1(Buffer, CompressedCurveNames, from,
                                      TrackValue(context, from)),
                          from + 1)

\* lines 240-259
DecompressCurvesAlone(Anim, Buffer, CurrentTime) ==
    IF Len(Anim.CompressedCurveNames) = 0
    THEN [fatal |-> FALSE, curves |-> Buffer]
    ELSE IF ~IsValid(Anim.CompressedCurveByteStream)
    THEN [fatal |-> TRUE, curves |-> Buffer]
    ELSE [fatal |-> FALSE,
          curves |-> DecompressTracks(SeekOf(Anim.CompressedCurveByteStream, CurrentTime),
                                      Anim.CompressedCurveNames, Buffer, 0)]

\* lines 276-312
DecompressCurveAlone(Anim, CurveUID, CurrentTime) ==
    IF Len(Anim.CompressedCurveNames) = 0
    THEN [fatal |-> FALSE, value |-> <<0>>]
    ELSE IF ~IsValid(Anim.CompressedCurveByteStream)
    THEN [fatal |-> TRUE, value |-> <<>>]
    ELSE LET TrackIndex == FindTrackIndex(Anim.CompressedCurveNames, CurveUID)
         IN  IF TrackIndex < 0
             THEN [fatal |-> FALSE, value |-> <<0>>]
             ELSE [fatal |-> FALSE,
                   value |-> <<TrackValue(SeekOf(Anim.CompressedCurveByteStream,
                                                 CurrentTime), TrackIndex)>>]

(***************************************************************************)
(* The calls, step by step, so that calls of different callers interleave. *)
(***************************************************************************)
NumCurves == Len(Playback.CompressedCurveNames)

\* A failed check() aborts the process.
Running == \A c \in Callers : dpc[c] # "fatal"

NoLocal == [NextTrack |-> 0, TrackIndex |-> -1, SampleValue |-> 0]

\* lines 240-248
DecompressCurvesEnter(c) ==
    /\ Running
    /\ dpc[c] = "idle"
    /\ \E CurrentTime \in CurrentTimes, Enabled \in EnabledSets :
          /\ Args' = [Args EXCEPT ![c] = [entry |-> "DecompressCurves", CurveUID |-> 0,
                                          CurrentTime |-> CurrentTime]]
          /\ Curves' = [Curves EXCEPT ![c] = BlendedCurve(Enabled)]
          /\ CurvesBefore' = [CurvesBefore EXCEPT ![c] = BlendedCurve(Enabled)]
    /\ dpc' = [dpc EXCEPT ![c] = IF NumCurves = 0 THEN "returned" ELSE "entered"]
    /\ UNCHANGED <<Playback, Context, Local, Result, Steps>>
    /\ UNCHANGED cvars

\* lines 276-284
DecompressCurveEnter(c) ==
    /\ Running
    /\ dpc[c] = "idle"
    /\ \E CurrentTime \in CurrentTimes, CurveUID \in UIDs :
          Args' = [Args EXCEPT ![c] = [entry |-> "DecompressCurve", CurveUID |-> CurveUID,
                                       CurrentTime |-> CurrentTime]]
    /\ IF NumCurves = 0
       THEN /\ Result' = [Result EXCEPT ![c] = <<0>>]
            /\ dpc' = [dpc EXCEPT ![c] = "returned"]
       ELSE /\ UNCHANGED Result
            /\ dpc' = [dpc EXCEPT ![c] = "entered"]
    /\ UNCHANGED <<Playback, Context, Local, Curves, CurvesBefore, Steps>>
    /\ UNCHANGED cvars

\* lines 250-251 and 286-287
DecompressValidateUnchecked_Mutant(c) ==
    /\ Running
    /\ dpc[c] = "entered"
    /\ dpc' = [dpc EXCEPT ![c] = IF IsValid(Playback.CompressedCurveByteStream)
                                 THEN "validated" ELSE "returned"]
    /\ Steps' = [Steps EXCEPT ![c] = Append(@, "is_valid")]
    /\ UNCHANGED <<Playback, Args, Context, Local, Result, Curves, CurvesBefore>>
    /\ UNCHANGED cvars

DecompressValidate(c) ==
    /\ Running
    /\ dpc[c] = "entered"
    /\ dpc' = [dpc EXCEPT ![c] = IF IsValid(Playback.CompressedCurveByteStream)
                                 THEN "validated" ELSE "fatal"]
    /\ Steps' = [Steps EXCEPT ![c] = Append(@, "is_valid")]
    /\ UNCHANGED <<Playback, Args, Context, Local, Result, Curves, CurvesBefore>>
    /\ UNCHANGED cvars

\* lines 253-255 and 289-291
DecompressSeek(c) ==
    /\ Running
    /\ dpc[c] = "validated"
    /\ Context' = SeekContext(Context, c, Playback.CompressedCurveByteStream,
                              Args[c].CurrentTime)
    /\ Steps' = [Steps EXCEPT ![c] = @ \o <<"initialize", "seek">>]
    /\ dpc' = [dpc EXCEPT ![c] = IF Args[c].entry = "DecompressCurves"
                                 THEN "writing" ELSE "sought"]
    /\ UNCHANGED <<Playback, Args, Local, Result, Curves, CurvesBefore>>
    /\ UNCHANGED cvars

\* lines 257-258: decompress_tracks hands each track, in index order, to
\* UE4CurveWriter::write_float1
DecompressTracksWrite(c) ==
    /\ Running
    /\ dpc[c] = "writing"
    /\ Local[c].NextTrack < Len(Context[c].tracks)
    /\ Curves' = [Curves EXCEPT ![c] =
                     WriteFloat1(@, Playback.CompressedCurveNames, Local[c].NextTrack,
                                 TrackValue(Context[c], Local[c].NextTrack))]
    /\ Local' = [Local EXCEPT ![c].NextTrack = @ + 1]
    /\ Steps' = [Steps EXCEPT ![c] = Append(@, "write_float1")]
    /\ UNCHANGED <<Playback, dpc, Args, Context, Result, CurvesBefore>>
    /\ UNCHANGED cvars

\* line 259
DecompressTracksReturn(c) ==
    /\ Running
    /\ dpc[c] = "writing"
    /\ Local[c].NextTrack >= Len(Context[c].tracks)
    /\ dpc' = [dpc EXCEPT ![c] = "returned"]
    /\ UNCHANGED <<Playback, Args, Context, Local, Result, Curves, CurvesBefore, Steps>>
    /\ UNCHANGED cvars

\* lines 293-306
DecompressCurveFind(c) ==
    /\ Running
    /\ dpc[c] = "sought"
    /\ LET TrackIndex == FindTrackIndex(Playback.CompressedCurveNames, Args[c].CurveUID)
       IN  /\ Local' = [Local EXCEPT ![c].TrackIndex = TrackIndex]
           /\ IF TrackIndex < 0
              THEN /\ Result' = [Result EXCEPT ![c] = <<0>>]
                   /\ dpc' = [dpc EXCEPT ![c] = "returned"]
              ELSE /\ UNCHANGED Result
                   /\ dpc' = [dpc EXCEPT ![c] = "found"]
    /\ UNCHANGED <<Playback, Args, Context, Curves, CurvesBefore, Steps>>
    /\ UNCHANGED cvars

\* lines 308-311
DecompressCurveRead(c) ==
    /\ Running
    /\ dpc[c] = "found"
    /\ LET SampleValue == TrackValue(Context[c], Local[c].TrackIndex)
       IN  /\ Local' = [Local EXCEPT ![c].SampleValue = SampleValue]
           /\ Result' = [Result EXCEPT ![c] = <<SampleValue>>]
    /\ Steps' = [Steps EXCEPT ![c] = Append(@, "decompress_track")]
    /\ dpc' = [dpc EXCEPT ![c] = "returned"]
    /\ UNCHANGED <<Playback, Args, Context, Curves, CurvesBefore>>
    /\ UNCHANGED cvars

(***************************************************************************)
(* Specifications.                                                         *)
(***************************************************************************)
NoArgs == [entry |-> "none", CurveUID |-> 0, CurrentTime |-> 0]
NoContext == [tracks |-> <<>>, key |-> 0]

\* No decompression call has been made.
PlaybackIdle ==
    /\ dpc = [c \in Callers |-> "idle"]
    /\ Args = [c \in Callers |-> NoArgs]
    /\ Context = [c \in Callers |-> NoContext]
    /\ Local = [c \in Callers |-> NoLocal]
    /\ Result = [c \in Callers |-> <<>>]
    /\ Curves = [c \in Callers |-> BlendedCurve({})]
    /\ CurvesBefore = [c \in Callers |-> BlendedCurve({})]
    /\ Steps = [c \in Callers |-> <<>>]

\* Compress has been entered with some animation and result object.
CompressEntered ==
    /\ Codec \in [CurvePrecision : CurvePrecisions,
                  MorphTargetPositionPrecision : MorphTargetPositionPrecisions,
                  MorphTargetSource : MorphTargetSources]
    /\ AnimSeq \in [FloatCurves : DistinctSeqs(RawCurves, MaxCurves),
                    NumFrames : 0..MaxFrames,
                    SequenceLength : SequenceLengths]
    /\ NoLogging \in BOOLEAN
    /\ OutResult \in {EmptyResult, EarlierResult}
    /\ OutResultBefore = OutResult
    /\ cpc = "entered"
    /\ Tracks = <<>>
    /\ EvalTimes = <<>>
    /\ CompressionResult = ""
    /\ CompressedTracks = "nullptr"
    /\ Heap = Unallocated
    /\ AllocLog = <<>>
    /\ CompressorCalls = 0
    /\ ReturnValue = "none"

\* The editor side is not compressing.
CompressIdle ==
    /\ Codec = [CurvePrecision |-> FDiv(FromInt(1), FromInt(1000)),
                MorphTargetPositionPrecision |-> FDiv(FromInt(1), FromInt(100)),
                MorphTargetSource |-> "nullptr"]
    /\ AnimSeq = [FloatCurves |-> <<>>, NumFrames |-> 0, SequenceLength |-> Zero]
    /\ NoLogging = FALSE
    /\ OutResult = EmptyResult
    /\ OutResultBefore = EmptyResult
    /\ cpc = "idle"
    /\ Tracks = <<>>
    /\ EvalTimes = <<>>
    /\ CompressionResult = ""
    /\ CompressedTracks = "nullptr"
    /\ Heap = Unallocated
    /\ AllocLog = <<>>
    /\ CompressorCalls = 0
    /\ ReturnValue = "none"

InitCompress ==
    /\ CompressEntered
    /\ Playback = [CompressedCurveNames |-> <<>>, CompressedCurveByteStream |-> Malformed]
    /\ PlaybackIdle

NextCompress ==
    \/ CompressBuildTracks
    \/ CompressTrackList
    \/ CompressFailed
    \/ CompressCopy
    \/ CompressLogError
    \/ CompressDeallocate

\* One call of Compress.
SpecCompress == InitCompress /\ [][NextCompress]_vars

Init ==
    /\ CompressIdle
    /\ Playback \in PlaybackAssets
    /\ PlaybackIdle

Next ==
    \E c \in Callers :
        \/ DecompressCurvesEnter(c)
        \/ DecompressCurveEnter(c)
        \/ DecompressValidate(c)
        \/ DecompressSeek(c)
        \/ DecompressTracksWrite(c)
        \/ DecompressTracksReturn(c)
        \/ DecompressCurveFind(c)
        \/ DecompressCurveRead(c)

\* The callers' decompression calls on one compressed animation, interleaved.
Spec == Init /\ [][Next]_vars


(***************************************************************************)
(* Claims about Compress, checked under SpecCompress.                      *)
(***************************************************************************)
Built == cpc \notin {"idle", "entered"}

Indices(log, events) == {i \in 1..Len(log) : log[i] \in events}

\* C2: when the external compressor reports a failure, Compress returns
\* false after a single compressor invocation (no retry) and produces no
\* blob: the caller's result object is exactly as it was before the call.
C2_FailureLeavesResult ==
    /\ CompressorCalls <= 1
    /\ CompressionResult # "" =>
          /\ CompressorCalls = 1
          /\ OutResult = OutResultBefore
          /\ cpc \in {"compressed", "returned"}
          /\ cpc = "returned" => ReturnValue = "false"

C2_Witness ==
    /\ cpc = "returned"
    /\ CompressionResult # ""
    /\ ReturnValue = "false"
    /\ OutResult = EarlierResult

MaxPositionDeltas ==
    GetMorphTargetMaxPositionDeltas(AnimSeq.FloatCurves, Codec.MorphTargetSource)

\* The precision of every track is the quotient or the curve precision, and
\* no quotient was taken with a zero divisor.
PrecisionOfEachTrack(Deltas) ==
    /\ Len(Tracks) = NumCurvesOf(AnimSeq)
    /\ \A i \in 1..Len(Tracks) :
          /\ FLess(Zero, Deltas[i]) =>
                Tracks[i].desc.precision =
                    FDiv(Codec.MorphTargetPositionPrecision, Deltas[i])
          /\ Deltas[i] = Zero => Tracks[i].desc.precision = Codec.CurvePrecision
          /\ Tracks[i].desc.precision # Inf
          /\ Tracks[i].desc.constant_threshold = Tracks[i].desc.precision

\* C4 as stated: the per-curve precision is morph precision / delta when
\* delta > 0 and exactly the curve precision when delta is 0, without a
\* division by zero; for delta > 0 it is strictly decreasing in delta, for
\* every configured precision value.
C4_StrictlyDecreasing ==
    Built =>
        \A Deltas \in {MaxPositionDeltas} :
            /\ PrecisionOfEachTrack(Deltas)
            /\ \A i, j \in 1..Len(Tracks) :
                  (FLess(Zero, Deltas[i]) /\ FLess(Deltas[i], Deltas[j]))
                  => FLess(Tracks[j].desc.precision, Tracks[i].desc.precision)

\* C4 as amended: the same, the precision being non-increasing in delta
\* (a morph precision of 0 and the rounding of the quotient give equal
\* precisions for different deltas).
C4_NonIncreasing ==
    Built =>
        \A Deltas \in {MaxPositionDeltas} :
            /\ PrecisionOfEachTrack(Deltas)
            /\ \A i, j \in 1..Len(Tracks) :
                  (FLess(Zero, Deltas[i]) /\ FLess(Deltas[i], Deltas[j]))
                  => FLessEq(Tracks[j].desc.precision, Tracks[i].desc.precision)

C4_Witness ==
    /\ Built
    /\ \E i, j \in 1..Len(Tracks) :
          /\ FLess(Zero, MaxPositionDeltas[i])
          /\ FLess(MaxPositionDeltas[i], MaxPositionDeltas[j])
          /\ FLess(Tracks[j].desc.precision, Tracks[i].desc.precision)
          /\ Tracks[j].desc.precision =
                 FDiv(Codec.MorphTargetPositionPrecision, MaxPositionDeltas[j])

\* The sample rate as the resampler's contract gives it.
ContractSampleRate ==
    IF AnimSeq.NumFrames <= 1 \/ FLess(AnimSeq.SequenceLength, StaticPoseLength)
    THEN FromInt(30)
    ELSE FDiv(FromInt(AnimSeq.NumFrames - 1), AnimSeq.SequenceLength)

\* Exactly NumFrames samples per curve, in index order, sample s being the
\* curve evaluated at TimeOf(s); every time within [0, SequenceLength]; the
\* time of a single sample is 0.
ResampledAt(TimeOf(_)) ==
    /\ Len(Tracks) = NumCurvesOf(AnimSeq)
    /\ Len(EvalTimes) = NumCurvesOf(AnimSeq)
    /\ \A times \in {[s \in 1..AnimSeq.NumFrames |-> TimeOf(s - 1)]} :
          \A i \in 1..Len(Tracks) :
              /\ Tracks[i].num_samples = AnimSeq.NumFrames
              /\ Tracks[i].sample_rate = ContractSampleRate
              /\ EvalTimes[i] = times
              /\ Tracks[i].samples =
                    [s \in 1..AnimSeq.NumFrames |->
                        Eval(AnimSeq.FloatCurves[i].FloatCurve, times[s])]
    /\ \A i \in 1..Len(EvalTimes) :
          /\ Len(EvalTimes[i]) = AnimSeq.NumFrames
          /\ Len(Tracks[i].samples) = AnimSeq.NumFrames
          /\ \A s \in 1..Len(EvalTimes[i]) :
                /\ FLessEq(Zero, EvalTimes[i][s])
                /\ FLessEq(EvalTimes[i][s], AnimSeq.SequenceLength)
          /\ AnimSeq.NumFrames = 1 => EvalTimes[i][1] = Zero

QuotientTime(SampleIndex) ==
    Clamp(FDiv(FromInt(SampleIndex), ContractSampleRate), Zero, AnimSeq.SequenceLength)

ProductTime(SampleIndex) ==
    Clamp(FMul(FromInt(SampleIndex), FDiv(FromInt(1), ContractSampleRate)),
          Zero, AnimSeq.SequenceLength)

\* C5 as stated: exactly num_samples samples per curve in index order,
\* sample i being the curve evaluated at clamp(i / sample_rate, 0,
\* sequence_length), sample_rate being 30 for a static pose and
\* (num_samples - 1) / sequence_length otherwise; every evaluation time in
\* [0, sequence_length]; the time of a single sample is 0.
C5_SampledAtQuotient == Built => ResampledAt(QuotientTime)

\* C5 as amended: the same with sample i evaluated at
\* clamp(i * (1 / sample_rate), 0, sequence_length), each operation rounded
\* to single precision.
C5_SampledAtProduct == Built => ResampledAt(ProductTime)

C5_Witness ==
    /\ Built
    /\ Len(Tracks) >= 1
    /\ AnimSeq.NumFrames >= 3
    /\ ~IsStaticPose(AnimSeq.NumFrames, AnimSeq.SequenceLength)
    /\ EvalTimes[1][AnimSeq.NumFrames] = AnimSeq.SequenceLength
    /\ FLess(Zero, EvalTimes[1][2])
    /\ FLess(EvalTimes[1][2], EvalTimes[1][3])


\* The track-identity list the asset stores with the blob of an animation.
CurveNamesOf(Anim) == [i \in 1..NumCurvesOf(Anim) |-> Anim.FloatCurves[i].Name.UID]

Reorderings(n) == {p \in [1..n -> 1..n] : \A i, j \in 1..n : p[i] = p[j] => i = j}

Permuted(Anim, p) ==
    [Anim EXCEPT !.FloatCurves = [i \in 1..NumCurvesOf(Anim) |-> Anim.FloatCurves[p[i]]]]

\* What playback has to decode for an animation compressed by this codec.
CompressedAnim(Anim) ==
    [CompressedCurveNames |-> CurveNamesOf(Anim),
     CompressedCurveByteStream |-> CompressedTracksOf(BuildTracks(Anim, Codec))]

Names == Playback.CompressedCurveNames

Bytes == Playback.CompressedCurveByteStream

Positions(uid) == {i \in 1..Len(Names) : Names[i] = uid}

Lowest(S) == CHOOSE i \in S : \A j \in S : i <= j

Highest(S) == CHOOSE i \in S : \A j \in S : j <= i

\* The sample of track number i (from 1) of the blob at a caller's query time.
SampleOf(i, c) ==
    LET samples == Bytes.tracks[i].samples
    IN  samples[IF Args[c].CurrentTime + 1 > Len(samples) THEN Len(samples)
                ELSE Args[c].CurrentTime + 1]

\* C1 as stated: DecompressCurve returns exactly 0.0, and never ends in an
\* error or fatal state, whenever the track-identity list is empty or the
\* requested identity does not occur in it, whatever the blob bytes are.
C1_ZeroWhateverTheBytes ==
    \A c \in Callers :
        (Args[c].entry = "DecompressCurve" /\ Positions(Args[c].CurveUID) = {}) =>
            /\ dpc[c] # "fatal"
            /\ dpc[c] = "returned" => Result[c] = <<0>>

\* C1 as amended: DecompressCurve returns exactly 0.0 without a fatal error
\* when the list is empty (whatever the bytes) or when the list is not empty,
\* the identity does not occur in it and the blob is well-formed; with a
\* non-empty list and a malformed blob the call ends in the fatal check.
C1_ZeroWhenAbsent ==
    \A c \in Callers :
        (Args[c].entry = "DecompressCurve" /\ Positions(Args[c].CurveUID) = {}) =>
            IF Len(Names) = 0 \/ IsValid(Bytes)
            THEN /\ dpc[c] # "fatal"
                 /\ dpc[c] = "returned" => Result[c] = <<0>>
            ELSE /\ dpc[c] # "returned"
                 /\ Result[c] = <<>>

C1_Witness ==
    \E c \in Callers :
        /\ Args[c].entry = "DecompressCurve"
        /\ Len(Names) > 0
        /\ Positions(Args[c].CurveUID) = {}
        /\ IsValid(Bytes)
        /\ Bytes.tracks[1].samples[1] # 0
        /\ dpc[c] = "returned"
        /\ Result[c] = <<0>>

\* C6: DecompressCurves writes the value of track i only to the buffer
\* entry of the identity at position i of the list, and only when that
\* identity is already enabled in the caller's buffer: entries of identities
\* that are not enabled or that match no track are left unchanged, no entry
\* is enabled or disabled, and with an empty list the buffer is unchanged.
C6_WritesOnlyEnabledMatches ==
    \A c \in Callers :
        Args[c].entry = "DecompressCurves" =>
            \A uid \in UIDs :
                LET written == {i \in Positions(uid) : i <= Local[c].NextTrack}
                IN  /\ Curves[c][uid].enabled = CurvesBefore[c][uid].enabled
                    /\ IF CurvesBefore[c][uid].enabled /\ written # {}
                       THEN Curves[c][uid].value = SampleOf(Highest(written), c)
                       ELSE Curves[c][uid] = CurvesBefore[c][uid]
                    /\ dpc[c] = "returned" /\ Len(Names) > 0 =>
                          Local[c].NextTrack = Len(Names)

C6_Witness ==
    \E c \in Callers :
        /\ Args[c].entry = "DecompressCurves"
        /\ dpc[c] = "returned"
        /\ Names = <<2, 1>>
        /\ Curves[c][1] = [enabled |-> TRUE, value |-> SampleOf(2, c)]
        /\ Curves[c][2] = [enabled |-> FALSE, value |-> 8]

\* What a call of caller c yields when no other call runs.
Alone(c) ==
    IF Args[c].entry = "DecompressCurve"
    THEN DecompressCurveAlone(Playback, Args[c].CurveUID, Args[c].CurrentTime)
    ELSE DecompressCurvesAlone(Playback, CurvesBefore[c], Args[c].CurrentTime)

\* C8: concurrent decompression calls do not interfere: in every
\* interleaving of DecompressCurve and DecompressCurves calls that write to
\* distinct caller buffers, each call builds its own decoding context, no
\* call writes state another call reads, and each call's result equals the
\* result of running that call alone.
C8_CallsDoNotInterfere ==
    \A c \in Callers :
        /\ dpc[c] = "idle" =>
              /\ Context[c] = NoContext
              /\ Local[c] = NoLocal
              /\ Result[c] = <<>>
              /\ Curves[c] = BlendedCurve({})
        /\ dpc[c] \in {"sought", "writing", "found"} =>
              Context[c] = SeekOf(Bytes, Args[c].CurrentTime)
        /\ dpc[c] = "fatal" => Alone(c).fatal
        /\ dpc[c] = "returned" =>
              /\ ~Alone(c).fatal
              /\ Args[c].entry = "DecompressCurve" => Result[c] = Alone(c).value
              /\ Args[c].entry = "DecompressCurves" =>
                    Curves[c] = Alone(c).curves /\ Result[c] = <<>>

C8_Witness ==
    /\ dpc["game"] = "writing"
    /\ Local["game"].NextTrack = 1
    /\ Curves["game"] # CurvesBefore["game"]
    /\ dpc["worker"] = "found"
    /\ Args["game"].CurrentTime # Args["worker"].CurrentTime
    /\ Context["game"] # Context["worker"]

\* The codec operations of a call come in the order: validation, context
\* initialisation, seek, then the reads.
InOrder(steps) ==
    /\ Len(steps) >= 1 => steps[1] = "is_valid"
    /\ Len(steps) >= 2 => Len(steps) >= 3 /\ steps[2] = "initialize" /\ steps[3] = "seek"
    /\ \A i \in 4..Len(steps) : steps[i] \in {"write_float1", "decompress_track"}

\* C9 as stated: every call validates the blob first, then seeks, then
\* reads; a malformed blob always ends the call in the fatal state, so no
\* call on a malformed blob returns a value or writes to the buffer.
C9_MalformedAlwaysFatal ==
    \A c \in Callers :
        /\ InOrder(Steps[c])
        /\ dpc[c] # "idle" => Len(Steps[c]) >= 1 \/ dpc[c] = "entered"
        /\ ~IsValid(Bytes) =>
              /\ dpc[c] \in {"idle", "entered", "fatal"}
              /\ Result[c] = <<>>
              /\ Curves[c] = CurvesBefore[c]

\* C9 as amended: every call with a non-empty track-identity list validates
\* the blob first, then seeks, then reads, and ends in the fatal state when
\* the blob is malformed, without returning a value or writing to the
\* buffer; a call with an empty list returns at once, without validating
\* (DecompressCurve returns 0.0, DecompressCurves leaves the buffer as it is).
C9_MalformedFatalUnlessEmpty ==
    \A c \in Callers :
        /\ InOrder(Steps[c])
        /\ IF Len(Names) = 0
           THEN /\ dpc[c] \in {"idle", "returned"}
                /\ Steps[c] = <<>>
                /\ Result[c] = IF Args[c].entry = "DecompressCurve" THEN <<0>> ELSE <<>>
                /\ Curves[c] = CurvesBefore[c]
           ELSE /\ dpc[c] \notin {"idle", "entered"} => Len(Steps[c]) >= 1
                /\ ~IsValid(Bytes) =>
                      /\ dpc[c] \in {"idle", "entered", "fatal"}
                      /\ Result[c] = <<>>
                      /\ Curves[c] = CurvesBefore[c]
                /\ dpc[c] = "returned" =>
                      /\ IsValid(Bytes)
                      /\ Len(Steps[c]) >= 3

C9_Witness ==
    \E c, d \in Callers :
        /\ c # d
        /\ Len(Names) > 0
        /\ ~IsValid(Bytes)
        /\ dpc[c] = "fatal"
        /\ Steps[c] = <<"is_valid">>
        /\ Args[c].entry = "DecompressCurves"
        /\ Args[d].entry = "DecompressCurve"
        /\ dpc[d] = "entered"

\* A finished DecompressCurves call of s and a finished DecompressCurve call
\* of t at the same query time, for an identity of the list that is enabled
\* in the buffer of s.
Comparable(s, t) ==
    /\ Args[s].entry = "DecompressCurves"
    /\ Args[t].entry = "DecompressCurve"
    /\ dpc[s] = "returned"
    /\ dpc[t] = "returned"
    /\ Args[s].CurrentTime = Args[t].CurrentTime
    /\ IsValid(Bytes)
    /\ Positions(Args[t].CurveUID) # {}
    /\ CurvesBefore[s][Args[t].CurveUID].enabled

\* C10 as stated: for every well-formed blob, every track-identity list,
\* every query time and every identity U of the list that is enabled in the
\* buffer, the value DecompressCurves leaves in the buffer for U equals the
\* value DecompressCurve returns for U.
C10_AllEqualsOne ==
    \A s, t \in Callers :
        Comparable(s, t) => <<Curves[s][Args[t].CurveUID].value>> = Result[t]

\* C10 as amended: DecompressCurve returns the value of the lowest-index
\* track whose identity is U, DecompressCurves leaves the value of the
\* highest-index one; the two agree when U occurs once in the list.
C10_AllEqualsOneWhenUnique ==
    \A s, t \in Callers :
        Comparable(s, t) =>
            LET U == Args[t].CurveUID
            IN  /\ Result[t] = <<SampleOf(Lowest(Positions(U)), t)>>
                /\ Curves[s][U].value = SampleOf(Highest(Positions(U)), s)
                /\ Cardinality(Positions(U)) = 1 => <<Curves[s][U].value>> = Result[t]

C10_Witness ==
    \E s, t \in Callers :
        /\ Comparable(s, t)
        /\ Positions(Args[t].CurveUID) = {2}
        /\ Bytes.tracks[1].samples # Bytes.tracks[2].samples
        /\ <<Curves[s][Args[t].CurveUID].value>> = Result[t]
        /\ Result[t] = <<SampleOf(2, t)>>

====
